---- MODULE Spec2Model ----
(***************************************************************************)
(* Model of app.py: the gift-card listing service.  The shared state is    *)
(* the data file listings.json, the upload directory and the uuid/clock    *)
(* sources; every request handler runs in a worker of the threaded server  *)
(* and is split at the points where it touches the shared files.           *)
(* Python strings are TLA+ strings (Len, SubSeq and \o act on them).       *)
(***************************************************************************)
EXTENDS Integers, Sequences, FiniteSets, TLC

(***************************************************************************)
(* Bounds of the model.                                                    *)
(***************************************************************************)
\* number of creates that may pass validation and build a listing object
MaxCreates == 2

\* number of requests that may get as far as changing files (creates that pass
\* validation, updates that find their listing)
MaxWriters == 3

\* the request workers of the threaded development server
Procs == {"w1", "w2"}

(***************************************************************************)
(* Program constants.                                                      *)
(***************************************************************************)
\* timedelta(days=1), in seconds
Day == 86400

\* Python's None
None == "None"

\* app.config['ADMIN_PASSWORD'] (config.py is not part of the sources)
ADMIN_PASSWORD == "admin-secret"

\* app.config['ALLOWED_EXTENSIONS'] (config.py is not part of the sources)
ALLOWED_EXTENSIONS == {"png", "jpg", "jpeg", "gif"}

required_fields ==
    <<"full_name", "email", "title", "description",
      "gift_card_number", "card_name", "amount">>

(***************************************************************************)
(* String helpers.                                                         *)
(***************************************************************************)
CharAt(s, i) == SubSeq(s, i, i)

\* one character of str.lower()
LowerChar(c) ==
    CASE c = "A" -> "a" [] c = "B" -> "b" [] c = "C" -> "c" [] c = "D" -> "d"
      [] c = "E" -> "e" [] c = "F" -> "f" [] c = "G" -> "g" [] c = "H" -> "h"
      [] c = "I" -> "i" [] c = "J" -> "j" [] c = "K" -> "k" [] c = "L" -> "l"
      [] c = "M" -> "m" [] c = "N" -> "n" [] c = "O" -> "o" [] c = "P" -> "p"
      [] c = "Q" -> "q" [] c = "R" -> "r" [] c = "S" -> "s" [] c = "T" -> "t"
      [] c = "U" -> "u" [] c = "V" -> "v" [] c = "W" -> "w" [] c = "X" -> "x"
      [] c = "Y" -> "y" [] c = "Z" -> "z" [] OTHER -> c

RECURSIVE Lower(_)
Lower(s) ==
    IF s = "" THEN "" ELSE LowerChar(CharAt(s, 1)) \o Lower(SubSeq(s, 2, Len(s)))

\* position of the last "." of s, 0 when there is none
RECURSIVE LastDot(_, _)
LastDot(s, i) ==
    IF i = 0 THEN 0 ELSE IF CharAt(s, i) = "." THEN i ELSE LastDot(s, i - 1)

\* the slice forgotten: the whole number is kept
Last4_Whole(s) == s

\* s[-4:]
Last4(s) == SubSeq(s, IF Len(s) > 4 THEN Len(s) - 3 ELSE 1, Len(s))

\* str.strip() for blanks
RECURSIVE Strip(_)
Strip(s) ==
    IF s = "" THEN ""
    ELSE IF CharAt(s, 1) = " " THEN Strip(SubSeq(s, 2, Len(s)))
    ELSE IF CharAt(s, Len(s)) = " " THEN Strip(SubSeq(s, 1, Len(s) - 1))
    ELSE s

Digits == {"0", "1", "2", "3", "4", "5", "6", "7", "8", "9"}

AllIn(s, S) == \A i \in 1..Len(s) : CharAt(s, i) \in S

\* digits with an optional decimal point and at least one digit
IsDecimal(s) ==
    LET d == LastDot(s, Len(s))
        whole == IF d = 0 THEN s ELSE SubSeq(s, 1, d - 1)
        frac == IF d = 0 THEN "" ELSE SubSeq(s, d + 1, Len(s))
    IN  /\ AllIn(whole, Digits)
        /\ AllIn(frac, Digits)
        /\ Len(whole) + Len(frac) > 0

\* float(amount): ok = FALSE stands for ValueError; otherwise the kind of the
\* value and how it compares with 0.  (Exponents are not modelled.)
float(amount) ==
    LET t == Strip(amount)
        signed == t # "" /\ CharAt(t, 1) \in {"+", "-"}
        neg == t # "" /\ CharAt(t, 1) = "-"
        body == IF signed THEN SubSeq(t, 2, Len(t)) ELSE t
        low == Lower(body)
    IN  IF low = "nan"
        THEN [ok |-> TRUE, kind |-> "nan", neg |-> neg, zero |-> FALSE]
        ELSE IF low \in {"inf", "infinity"}
        THEN [ok |-> TRUE, kind |-> "inf", neg |-> neg, zero |-> FALSE]
        ELSE IF IsDecimal(body)
        THEN [ok |-> TRUE, kind |-> "num", neg |-> neg,
              zero |-> AllIn(body, {"0", "."})]
        ELSE [ok |-> FALSE, kind |-> "err", neg |-> FALSE, zero |-> FALSE]

\* amount_float <= 0 (every comparison with nan is False)
LeqZero(f) ==
    CASE f.kind = "nan" -> FALSE
      [] f.kind = "inf" -> f.neg
      [] OTHER -> f.zero \/ f.neg

(***************************************************************************)
(* verify_payment                                                          *)
(***************************************************************************)
verify_payment(gift_card_number, card_name, amount) ==
    IF gift_card_number = "" \/ card_name = "" \/ amount = ""
    THEN <<FALSE, "All payment fields are required">>
    ELSE IF Len(gift_card_number) < 8
    THEN <<FALSE, "Invalid gift card number format">>
    ELSE IF ~float(amount).ok
    THEN <<FALSE, "Invalid amount format">>
    ELSE IF LeqZero(float(amount))
    THEN <<FALSE, "Amount must be positive">>
    ELSE <<TRUE, "Payment verification successful">>

(***************************************************************************)
(* allowed_file, secure_filename, uuid4, sha256                            *)
(***************************************************************************)
allowed_file(filename) ==
    LET d == LastDot(filename, Len(filename))
    IN  d # 0 /\ Lower(SubSeq(filename, d + 1, Len(filename))) \in ALLOWED_EXTENSIONS

\* werkzeug's secure_filename on the names used here: path separators and
\* blanks become "_", the safe characters are kept
RECURSIVE secure_filename(_)
secure_filename(s) ==
    IF s = "" THEN ""
    ELSE (IF CharAt(s, 1) \in {"/", " "} THEN "_" ELSE CharAt(s, 1))
         \o secure_filename(SubSeq(s, 2, Len(s)))

\* str(uuid.uuid4()): the n-th value drawn; distinct draws give distinct values
uuid4(n) == "u" \o ToString(n)

\* hashlib.sha256(s.encode()).hexdigest(), as an injective digest
sha256(s) == "sha256(" \o s \o ")"

(***************************************************************************)
(* Requests.  A form is a function from the keys present in request.form   *)
(* to their values; a file is the uploaded file's name, or None.           *)
(***************************************************************************)
BaseForm(gift_card_number, amount) ==
    [full_name |-> "Ann", email |-> "ann@example.com", title |-> "Card",
     description |-> "unused", gift_card_number |-> gift_card_number,
     card_name |-> "Visa", amount |-> amount]

\* the form without the keys of S
Without(data, S) == [k \in (DOMAIN data) \ S |-> data[k]]

\* the form with the keys of S submitted empty
Blank(data, S) == [k \in DOMAIN data |-> IF k \in S THEN "" ELSE data[k]]

Fields == {required_fields[i] : i \in 1..Len(required_fields)}

RejectedForms ==
    {BaseForm("1234", "10"), BaseForm("1234567", "abc"),
     BaseForm("12345678", "-5"), BaseForm("12345678", "0.0"),
     BaseForm("12345678", "abc"), BaseForm("12345678", "1,5")}

DefectiveForms ==
    LET b == BaseForm("ABCDEFGH1234", "25.00")
    IN  {Without(b, {f}) : f \in Fields}
        \cup {Blank(b, {f}) : f \in Fields}
        \cup {Without(b, Fields), Blank(b, {"email", "amount"}),
              Without(Blank(b, {"title"}), {"description"}),
              Without(Blank(BaseForm("1234", "abc"), {"card_name"}), {"amount"})}

Token == "Bearer " \o sha256(ADMIN_PASSWORD)

\* the uuid4 values the creates can draw (one per stored image, one per id)
Ids == {uuid4(n) : n \in 1..2 * MaxCreates}

UpdateRequest(auth, listing_id, action) ==
    [auth |-> auth, listing_id |-> listing_id, action |-> action]

\* the requests of the concurrent specification; None is a parameter, header
\* or file that is not sent
CreateRequest(data, file) == [data |-> data, file |-> file]

Creates ==
    {CreateRequest(data, file) :
        data \in {BaseForm("ABCDEFGH1234", "25.00"), BaseForm("1234", "10")},
        file \in {None, "a.png"}}
Updates ==
    {UpdateRequest(Token, id, a) : id \in Ids, a \in {"approve", "reject", "delete"}}
    \cup {UpdateRequest(None, uuid4(1), "delete"), UpdateRequest(Token, uuid4(1), "ban")}
Args == {None, "false"}
Auths == {Token}
Passwords == {ADMIN_PASSWORD, "guess"}

\* the requests of the sequential specification
AllCreates ==
    {CreateRequest(BaseForm("ABCDEFGH1234", "25.00"), file) :
        file \in {None, "", "a.png", "B c.JPG", "x.exe", "README"}}
    \cup {CreateRequest(BaseForm("12345678", "nan"), None)}
    \cup {CreateRequest(data, file) :
            data \in RejectedForms \cup DefectiveForms, file \in {None, "a.png"}}
AllAuths == {None, "", Token, sha256(ADMIN_PASSWORD), "Bearer " \o sha256("guess")}
AllUpdates ==
    {UpdateRequest(Token, id, a) :
        id \in Ids \cup {"unknown"},
        a \in {"approve", "reject", "delete", "ban", "Approve", None}}
    \cup {UpdateRequest(auth, id, "delete") :
            auth \in AllAuths, id \in {uuid4(1), uuid4(2), "unknown"}}
    \cup {UpdateRequest(auth, uuid4(1), a) :
            auth \in {None, "Bearer " \o sha256("guess")}, a \in {"approve", "ban"}}
AllArgs == {None, "true", "TRUE", "false", "0"}
AllPasswords ==
    {None, "", ADMIN_PASSWORD, "guess", "ADMIN-SECRET", sha256(ADMIN_PASSWORD)}

(***************************************************************************)
(* State.                                                                  *)
(***************************************************************************)
VARIABLES
    dataFile,    \* listings.json: [exists, complete, recs]; complete = FALSE
                 \* when the text is not a whole JSON document
    uploads,     \* names of the files in UPLOAD_FOLDER
    uuidCount,   \* uuid4 values drawn so far
    clock,       \* datetime.now()
    writers,     \* requests that got as far as changing files
    pc,          \* pc[p]: where worker p's handler stands
    local,       \* local[p]: the handler's local variables
    resp,        \* the response in flight (with its request), NoResp otherwise
    submitted,   \* history: <<id, gift_card_number submitted, image_url>> of
                 \* every listing object built
    decided,     \* history: ids that were persisted as Approved or Rejected
    deleted,     \* history: ids whose delete returned success
    acked        \* history: <<id, operation>> of every success response of a
                 \* create or an update that reached its client

vars == <<dataFile, uploads, uuidCount, clock, writers, pc, local, resp,
          submitted, decided, deleted, acked>>

NoResp == [op |-> "none"]
NoLocal == [op |-> "none"]

\* the ids of a collection
IdsOf(listings) == {listings[i].id : i \in 1..Len(listings)}

\* ids persisted as Approved or Rejected in a file
DecidedIn(f) ==
    IF f.complete
    THEN {f.recs[i].id :
            i \in {j \in 1..Len(f.recs) : f.recs[j].status \in {"Approved", "Rejected"}}}
    ELSE {}

(***************************************************************************)
(* The data file.                                                          *)
(***************************************************************************)
\* json.dump(listings, f) as the whole text of the file
json_dump(listings) == [exists |-> TRUE, complete |-> TRUE, recs |-> listings]

\* init_data_file(): creates the file holding [] when it does not exist
init_data_file(f) == IF f.exists THEN f ELSE json_dump(<< >>)

\* open(DATA_FILE, 'r') and json.load(f): ok = FALSE stands for the
\* JSONDecodeError raised on a text that is not a whole document
json_load(f) == [ok |-> f.complete, value |-> f.recs]

\* open(DATA_FILE, 'w'): the file is truncated when it is opened
open_w(f) == [exists |-> TRUE, complete |-> FALSE, recs |-> << >>]

\* a save that keeps what is in the file and writes after it
write_dump_Append(f, listings) ==
    [exists |-> TRUE, complete |-> TRUE, recs |-> f.recs \o listings]

\* json.dump(listings, f) and the close of a file opened by open_w.  The text
\* is written from offset 0 without truncating again: when another writer has
\* put a longer text there since this writer's open, its tail stays behind
\* this text and the file is no JSON document.
write_dump(f, listings) ==
    IF Len(f.recs) > Len(listings)
    THEN [exists |-> TRUE, complete |-> FALSE, recs |-> listings]
    ELSE json_dump(listings)

\* a write that raises OSError after k records: the file keeps a prefix;
\* Cuts gives the two extreme places of the failure
write_fail(f, listings, k) ==
    [exists |-> TRUE, complete |-> FALSE, recs |-> SubSeq(listings, 1, k)]

Cuts(listings) == {0, Len(listings)}

Init ==
    /\ dataFile = init_data_file([exists |-> FALSE, complete |-> FALSE, recs |-> << >>])
    /\ uploads = {}
    /\ uuidCount = 0
    /\ clock = 0
    /\ writers = 0
    /\ pc = [p \in Procs |-> "idle"]
    /\ local = [p \in Procs |-> NoLocal]
    /\ resp = NoResp
    /\ submitted = {}
    /\ decided = {}
    /\ deleted = {}
    /\ acked = {}

(***************************************************************************)
(* create_listing                                                          *)
(***************************************************************************)
\* the check "field not in data" alone: an empty value passes
RECURSIVE FirstMissing_AbsentOnly(_, _)
FirstMissing_AbsentOnly(data, i) ==
    IF i > Len(required_fields) THEN None
    ELSE IF required_fields[i] \notin DOMAIN data THEN required_fields[i]
    ELSE FirstMissing_AbsentOnly(data, i + 1)

\* the first field of required_fields[i..] that is absent or empty, or None
RECURSIVE FirstMissing(_, _)
FirstMissing(data, i) ==
    IF i > Len(required_fields) THEN None
    ELSE IF required_fields[i] \notin DOMAIN data \/ data[required_fields[i]] = ""
    THEN required_fields[i]
    ELSE FirstMissing(data, i + 1)

\* the validation without the payment check
create_check_NoVerify(data) ==
    IF \E i \in 1..Len(required_fields) :
          required_fields[i] \notin DOMAIN data \/ data[required_fields[i]] = ""
    THEN [code |-> 400, error |-> "Missing required field"]
    ELSE [code |-> 201, error |-> None]

\* the validation of the form: the error response, or code 201 to go on
create_check(data) ==
    LET missing == FirstMissing(data, 1)
    IN  IF missing # None
        THEN [code |-> 400, error |-> "Missing required field: " \o missing]
        ELSE LET v == verify_payment(data.gift_card_number, data.card_name, data.amount)
             IN  IF ~v[1] THEN [code |-> 400, error |-> v[2]]
                 ELSE [code |-> 201, error |-> None]

\* file and allowed_file(file.filename)
StoresImage(file) == file # None /\ file # "" /\ allowed_file(file)

\* the listing object
NewListing(data, image_url, id, now) ==
    [id |-> id,
     full_name |-> data.full_name,
     email |-> data.email,
     title |-> data.title,
     description |-> data.description,
     image_url |-> image_url,
     payment_details |->
        [gift_card_number |-> Last4(data.gift_card_number),
         card_name |-> data.card_name,
         amount |-> data.amount,
         verified |-> verify_payment(data.gift_card_number, data.card_name, data.amount)[1]],
     status |-> "Pending",
     created_at |-> now,
     verification_date |-> now + Day]

CreateResp(data, file, code, error, body) ==
    [op |-> "create", data |-> data, file |-> file,
     code |-> code, error |-> error, body |-> body]

\* lines 90-138: validation, payment check, image upload, the listing object
CreateListing(p, requests) ==
    /\ resp = NoResp
    /\ pc[p] = "idle"
    /\ \E req \in requests :
        LET data == req.data
            file == req.file
            chk == create_check(data)
            stored == StoresImage(file)
            filename == secure_filename(uuid4(uuidCount + 1) \o "_" \o file)
            drawn == IF stored THEN 2 ELSE 1
            id == uuid4(uuidCount + drawn)
            image_url == IF stored THEN "/uploads/" \o filename ELSE None
        IN  IF chk.code # 201
            THEN /\ resp' = CreateResp(data, file, chk.code, chk.error, << >>)
                 /\ UNCHANGED <<dataFile, uploads, uuidCount, clock, writers, pc, local,
                                submitted, decided, deleted, acked>>
            ELSE /\ Cardinality(submitted) < MaxCreates
                 /\ writers < MaxWriters
                 /\ writers' = writers + 1
                 /\ uploads' = IF stored THEN uploads \cup {filename} ELSE uploads
                 /\ uuidCount' = uuidCount + drawn
                 /\ clock' = clock + 1
                 /\ pc' = [pc EXCEPT ![p] = "c_load"]
                 /\ local' = [local EXCEPT ![p] =
                        [op |-> "create", data |-> data, file |-> file,
                         listing |-> NewListing(data, image_url, id, clock),
                         listings |-> << >>]]
                 /\ submitted' = submitted \cup {<<id, data.gift_card_number, image_url>>}
                 /\ resp' = NoResp
                 /\ UNCHANGED <<dataFile, decided, deleted, acked>>

\* lines 141-145: init_data_file, json.load, append; a JSONDecodeError is
\* caught by the handler's except clause
CreateLoad(p) ==
    /\ resp = NoResp
    /\ pc[p] = "c_load"
    /\ LET f == init_data_file(dataFile)
           r == json_load(f)
       IN  /\ dataFile' = f
           /\ IF r.ok
              THEN /\ local' = [local EXCEPT ![p].listings = Append(r.value, local[p].listing)]
                   /\ pc' = [pc EXCEPT ![p] = "c_open"]
                   /\ resp' = NoResp
              ELSE /\ local' = [local EXCEPT ![p] = NoLocal]
                   /\ pc' = [pc EXCEPT ![p] = "idle"]
                   /\ resp' = CreateResp(local[p].data, local[p].file, 500,
                                         "JSONDecodeError", << >>)
    /\ UNCHANGED <<uploads, uuidCount, clock, writers, submitted, decided, deleted, acked>>

\* line 147: open(DATA_FILE, 'w')
CreateOpen(p) ==
    /\ resp = NoResp
    /\ pc[p] = "c_open"
    /\ dataFile' = open_w(dataFile)
    /\ pc' = [pc EXCEPT ![p] = "c_dump"]
    /\ resp' = NoResp
    /\ UNCHANGED <<uploads, uuidCount, clock, writers, local, submitted, decided, deleted, acked>>

\* line 147: open raises OSError; the except clause answers 500
CreateOpenFail(p) ==
    /\ resp = NoResp
    /\ pc[p] = "c_open"
    /\ pc' = [pc EXCEPT ![p] = "idle"]
    /\ local' = [local EXCEPT ![p] = NoLocal]
    /\ resp' = CreateResp(local[p].data, local[p].file, 500, "OSError", << >>)
    /\ UNCHANGED <<dataFile, uploads, uuidCount, clock, writers, submitted, decided, deleted, acked>>

\* lines 148-153: json.dump and the 201 response
CreateDump(p) ==
    /\ resp = NoResp
    /\ pc[p] = "c_dump"
    /\ dataFile' = write_dump(dataFile, local[p].listings)
    /\ decided' = decided \cup DecidedIn(dataFile')
    /\ pc' = [pc EXCEPT ![p] = "idle"]
    /\ local' = [local EXCEPT ![p] = NoLocal]
    /\ resp' = CreateResp(local[p].data, local[p].file, 201, None, <<local[p].listing>>)
    /\ UNCHANGED <<uploads, uuidCount, clock, writers, submitted, deleted, acked>>

\* lines 148 and 155-156: json.dump raises (an OSError of the write), the
\* except clause answers 500
CreateDumpFail(p) ==
    /\ resp = NoResp
    /\ pc[p] = "c_dump"
    /\ \E k \in Cuts(local[p].listings) :
        dataFile' = write_fail(dataFile, local[p].listings, k)
    /\ pc' = [pc EXCEPT ![p] = "idle"]
    /\ local' = [local EXCEPT ![p] = NoLocal]
    /\ resp' = CreateResp(local[p].data, local[p].file, 500, "OSError", << >>)
    /\ UNCHANGED <<uploads, uuidCount, clock, writers, submitted, decided, deleted, acked>>

(***************************************************************************)
(* update_listing                                                          *)
(***************************************************************************)
\* the check "not auth" alone: any header passes
Unauthorized_MissingOnly(auth) == auth = None \/ auth = ""

\* not auth or auth != f"Bearer {admin_hash}"
Unauthorized(auth) ==
    auth = None \/ auth = "" \/ auth # "Bearer " \o sha256(ADMIN_PASSWORD)

\* the search with listing_index starting at the first element, not at None
FindIndex_Default(listings, listing_id, i) ==
    IF \E j \in i..Len(listings) : listings[j].id = listing_id
    THEN CHOOSE j \in i..Len(listings) :
            /\ listings[j].id = listing_id
            /\ \A k \in i..(j - 1) : listings[k].id # listing_id
    ELSE IF Len(listings) > 0 THEN 1 ELSE 0

\* the loop of lines 176-180: the first index holding the id, 0 for None
RECURSIVE FindIndex(_, _, _)
FindIndex(listings, listing_id, i) ==
    IF i > Len(listings) THEN 0
    ELSE IF listings[i].id = listing_id THEN i
    ELSE FindIndex(listings, listing_id, i + 1)

\* listings.pop() without the index: the last element goes
Pop_Last(listings, i) == SubSeq(listings, 1, Len(listings) - 1)

\* listings.pop(i), the list that is left
Pop(listings, i) ==
    SubSeq(listings, 1, i - 1) \o SubSeq(listings, i + 1, Len(listings))

\* str.replace(old, "")
RECURSIVE RemoveAll(_, _)
RemoveAll(s, old) ==
    IF Len(s) < Len(old) THEN s
    ELSE IF SubSeq(s, 1, Len(old)) = old
    THEN RemoveAll(SubSeq(s, Len(old) + 1, Len(s)), old)
    ELSE CharAt(s, 1) \o RemoveAll(SubSeq(s, 2, Len(s)), old)

\* the name in UPLOAD_FOLDER that an image_url stands for
ImagePath(image_url) == RemoveAll(image_url, "/uploads/")

\* a moderation that puts the listing it approves or rejects at the end of the
\* collection and forgets its image
moderate_MoveLast(listings, i, action) ==
    CASE action = "delete" ->
            [code |-> 200, listings |-> SubSeq(listings, 1, i - 1)
                                        \o SubSeq(listings, i + 1, Len(listings)),
             message |-> "Listing deleted successfully"]
      [] action = "approve" ->
            [code |-> 200,
             listings |-> SubSeq(listings, 1, i - 1) \o SubSeq(listings, i + 1, Len(listings))
                          \o <<[listings[i] EXCEPT !.status = "Approved"]>>,
             message |-> "Listing approved successfully"]
      [] action = "reject" ->
            [code |-> 200,
             listings |-> SubSeq(listings, 1, i - 1) \o SubSeq(listings, i + 1, Len(listings))
                          \o <<[listings[i] EXCEPT !.status = "Rejected", !.image_url = None]>>,
             message |-> "Listing rejected successfully"]
      [] OTHER ->
            [code |-> 400, listings |-> listings, message |-> "Invalid action"]

\* a moderation that refuses a listing that is not Pending any more
moderate_PendingOnly(listings, i, action) ==
    CASE action = "delete" ->
            [code |-> 200, listings |-> SubSeq(listings, 1, i - 1)
                                        \o SubSeq(listings, i + 1, Len(listings)),
             message |-> "Listing deleted successfully"]
      [] action \in {"approve", "reject"} /\ listings[i].status # "Pending" ->
            [code |-> 400, listings |-> listings, message |-> "Invalid action"]
      [] action = "approve" ->
            [code |-> 200, listings |-> [listings EXCEPT ![i].status = "Approved"],
             message |-> "Listing approved successfully"]
      [] action = "reject" ->
            [code |-> 200, listings |-> [listings EXCEPT ![i].status = "Rejected"],
             message |-> "Listing rejected successfully"]
      [] OTHER ->
            [code |-> 400, listings |-> listings, message |-> "Invalid action"]

\* the else branch without its final else: any other action rejects
moderate_Lenient(listings, i, action) ==
    CASE action = "delete" ->
            [code |-> 200, listings |-> SubSeq(listings, 1, i - 1)
                                        \o SubSeq(listings, i + 1, Len(listings)),
             message |-> "Listing deleted successfully"]
      [] action = "approve" ->
            [code |-> 200, listings |-> [listings EXCEPT ![i].status = "Approved"],
             message |-> "Listing approved successfully"]
      [] OTHER ->
            [code |-> 200, listings |-> [listings EXCEPT ![i].status = "Rejected"],
             message |-> "Listing rejected successfully"]

\* lines 185-206 on the loaded list: the list to save and the message, or the
\* 400 of an action that is none of the three
moderate(listings, i, action) ==
    CASE action = "delete" ->
            [code |-> 200, listings |-> Pop(listings, i),
             message |-> "Listing deleted successfully"]
      [] action = "approve" ->
            [code |-> 200, listings |-> [listings EXCEPT ![i].status = "Approved"],
             message |-> "Listing approved successfully"]
      [] action = "reject" ->
            [code |-> 200, listings |-> [listings EXCEPT ![i].status = "Rejected"],
             message |-> "Listing rejected successfully"]
      [] OTHER ->
            [code |-> 400, listings |-> listings, message |-> "Invalid action"]

UpdateResp(auth, listing_id, action, code, message) ==
    [op |-> "update", auth |-> auth, listing_id |-> listing_id, action |-> action,
     code |-> code, error |-> message, body |-> << >>]

\* lines 159-206 up to the removal of the image: the token check, the load,
\* the search and the change of the loaded list
UpdateListing(p, requests) ==
    /\ resp = NoResp
    /\ pc[p] = "idle"
    /\ \E req \in requests :
        LET auth == req.auth
            listing_id == req.listing_id
            action == req.action
            f == init_data_file(dataFile)
            r == json_load(f)
            i == FindIndex(r.value, listing_id, 1)
            m == moderate(r.value, i, action)
            listing == r.value[i]
            hasImage == listing.image_url # None /\ listing.image_url # ""
            full_path == ImagePath(listing.image_url)
            answer(code, message) ==
                /\ resp' = UpdateResp(auth, listing_id, action, code, message)
                /\ UNCHANGED <<pc, local, writers>>
        IN  /\ IF Unauthorized(auth)
               THEN answer(401, "Unauthorized") /\ UNCHANGED dataFile
               ELSE /\ dataFile' = f
                    /\ IF ~r.ok THEN answer(500, "JSONDecodeError")
                       ELSE IF i = 0 THEN answer(404, "Listing not found")
                       ELSE IF m.code # 200 THEN answer(m.code, m.message)
                       ELSE /\ writers < MaxWriters
                            /\ writers' = writers + 1
                            /\ local' = [local EXCEPT ![p] =
                                   [op |-> "update", auth |-> auth,
                                    listing_id |-> listing_id, action |-> action,
                                    loaded |-> r.value, listings |-> m.listings,
                                    message |-> m.message,
                                    full_path |-> IF action = "delete" /\ hasImage
                                                  THEN full_path ELSE None]]
                            /\ pc' = [pc EXCEPT ![p] =
                                   IF action = "delete" /\ hasImage /\ full_path \in uploads
                                   THEN "u_rm" ELSE "u_open"]
                            /\ resp' = NoResp
    /\ UNCHANGED <<uploads, uuidCount, clock, submitted, decided, deleted, acked>>

\* line 194: os.remove(full_path); the FileNotFoundError of a file that went
\* away since os.path.exists is not caught and ends the request with a 500
UpdateRemove(p) ==
    /\ resp = NoResp
    /\ pc[p] = "u_rm"
    /\ IF local[p].full_path \in uploads
       THEN /\ uploads' = uploads \ {local[p].full_path}
            /\ pc' = [pc EXCEPT ![p] = "u_open"]
            /\ local' = local
            /\ resp' = NoResp
       ELSE /\ uploads' = uploads
            /\ pc' = [pc EXCEPT ![p] = "idle"]
            /\ local' = [local EXCEPT ![p] = NoLocal]
            /\ resp' = UpdateResp(local[p].auth, local[p].listing_id, local[p].action,
                                  500, "FileNotFoundError")
    /\ UNCHANGED <<dataFile, uuidCount, clock, writers, submitted, decided, deleted, acked>>

\* line 209: open(DATA_FILE, 'w')
UpdateOpen(p) ==
    /\ resp = NoResp
    /\ pc[p] = "u_open"
    /\ dataFile' = open_w(dataFile)
    /\ pc' = [pc EXCEPT ![p] = "u_dump"]
    /\ resp' = NoResp
    /\ UNCHANGED <<uploads, uuidCount, clock, writers, local, submitted, decided, deleted, acked>>

\* line 209: open raises OSError; nothing catches it and the request ends
\* with 500
UpdateOpenFail(p) ==
    /\ resp = NoResp
    /\ pc[p] = "u_open"
    /\ pc' = [pc EXCEPT ![p] = "idle"]
    /\ local' = [local EXCEPT ![p] = NoLocal]
    /\ resp' = UpdateResp(local[p].auth, local[p].listing_id, local[p].action,
                          500, "OSError")
    /\ UNCHANGED <<dataFile, uploads, uuidCount, clock, writers, submitted, decided, deleted, acked>>

\* lines 210-212: json.dump and the response
UpdateDump(p) ==
    /\ resp = NoResp
    /\ pc[p] = "u_dump"
    /\ dataFile' = write_dump(dataFile, local[p].listings)
    /\ decided' = decided \cup DecidedIn(dataFile')
    /\ deleted' = IF local[p].action = "delete"
                  THEN deleted \cup {local[p].listing_id} ELSE deleted
    /\ pc' = [pc EXCEPT ![p] = "idle"]
    /\ local' = [local EXCEPT ![p] = NoLocal]
    /\ resp' = UpdateResp(local[p].auth, local[p].listing_id, local[p].action,
                          200, local[p].message)
    /\ UNCHANGED <<uploads, uuidCount, clock, writers, submitted, acked>>

\* line 210: json.dump raises; nothing catches it and the request ends with 500
UpdateDumpFail(p) ==
    /\ resp = NoResp
    /\ pc[p] = "u_dump"
    /\ \E k \in Cuts(local[p].listings) :
        dataFile' = write_fail(dataFile, local[p].listings, k)
    /\ pc' = [pc EXCEPT ![p] = "idle"]
    /\ local' = [local EXCEPT ![p] = NoLocal]
    /\ resp' = UpdateResp(local[p].auth, local[p].listing_id, local[p].action,
                          500, "OSError")
    /\ UNCHANGED <<uploads, uuidCount, clock, writers, submitted, decided, deleted, acked>>

(***************************************************************************)
(* get_listings, get_all_listings                                          *)
(***************************************************************************)
\* request.args.get('approved_only', 'true').lower() == 'true'
approved_only(arg) == Lower(IF arg = None THEN "true" ELSE arg) = "true"

IsApproved(l) == l.status = "Approved"

\* the list that get_listings returns for the loaded list
public_view(listings, arg) ==
    IF approved_only(arg) THEN SelectSeq(listings, IsApproved) ELSE listings

ListResp(op, auth, arg, code, error, body) ==
    [op |-> op, auth |-> auth, arg |-> arg, code |-> code, error |-> error,
     body |-> body]

GetListings(p, args) ==
    /\ resp = NoResp
    /\ pc[p] = "idle"
    /\ \E arg \in args :
        LET f == init_data_file(dataFile)
            r == json_load(f)
        IN  /\ dataFile' = f
            /\ resp' = IF r.ok
                       THEN ListResp("get_listings", None, arg, 200, None,
                                     public_view(r.value, arg))
                       ELSE ListResp("get_listings", None, arg, 500,
                                     "JSONDecodeError", << >>)
    /\ UNCHANGED <<uploads, uuidCount, clock, writers, pc, local, submitted, decided, deleted, acked>>

GetAllListings(p, auths) ==
    /\ resp = NoResp
    /\ pc[p] = "idle"
    /\ \E auth \in auths :
        LET f == init_data_file(dataFile)
            r == json_load(f)
        IN  IF Unauthorized(auth)
            THEN /\ resp' = ListResp("get_all_listings", auth, None, 401,
                                     "Unauthorized", << >>)
                 /\ UNCHANGED dataFile
            ELSE /\ dataFile' = f
                 /\ resp' = IF r.ok
                            THEN ListResp("get_all_listings", auth, None, 200, None,
                                          r.value)
                            ELSE ListResp("get_all_listings", auth, None, 500,
                                          "JSONDecodeError", << >>)
    /\ UNCHANGED <<uploads, uuidCount, clock, writers, pc, local, submitted, decided, deleted, acked>>

(***************************************************************************)
(* admin_login, get_stats                                                  *)
(***************************************************************************)
\* lines 217-232; None is a body without the key 'password'
AdminLogin(p, passwords) ==
    /\ resp = NoResp
    /\ pc[p] = "idle"
    /\ \E password \in passwords :
        resp' = IF password = ADMIN_PASSWORD
                THEN [op |-> "admin_login", password |-> password, code |-> 200,
                      body |-> [success |-> TRUE, token |-> sha256(password),
                                message |-> "Login successful"]]
                ELSE [op |-> "admin_login", password |-> password, code |-> 401,
                      body |-> [success |-> FALSE, message |-> "Invalid password"]]
    /\ UNCHANGED <<dataFile, uploads, uuidCount, clock, writers, pc, local,
                   submitted, decided, deleted, acked>>

\* len([l for l in listings if l.get('status') == status])
CountStatus(listings, status) ==
    Len(SelectSeq(listings, LAMBDA l : l.status = status))

\* the counts with 'pending' taken as everything that is not Approved
stats_PendingAsRest(listings) ==
    [total |-> Len(listings),
     pending |-> Len(listings) - CountStatus(listings, "Approved"),
     approved |-> CountStatus(listings, "Approved"),
     rejected |-> CountStatus(listings, "Rejected")]

\* lines 245-250
stats(listings) ==
    [total |-> Len(listings),
     pending |-> CountStatus(listings, "Pending"),
     approved |-> CountStatus(listings, "Approved"),
     rejected |-> CountStatus(listings, "Rejected")]

\* lines 241-252; the JSONDecodeError of the load ends the request with 500
GetStats(p) ==
    /\ resp = NoResp
    /\ pc[p] = "idle"
    /\ LET f == init_data_file(dataFile)
           r == json_load(f)
       IN  /\ dataFile' = f
           /\ resp' = IF r.ok
                      THEN [op |-> "get_stats", code |-> 200, error |-> None,
                            body |-> stats(r.value)]
                      ELSE [op |-> "get_stats", code |-> 500,
                            error |-> "JSONDecodeError", body |-> << >>]
    /\ UNCHANGED <<uploads, uuidCount, clock, writers, pc, local, submitted, decided,
                   deleted, acked>>

\* what a client learns from a success response: the listing created, or the
\* listing and the action of the update
Acknowledged(r) ==
    IF r.op = "create" /\ r.code = 201 THEN {<<r.body[1].id, "create">>}
    ELSE IF r.op = "update" /\ r.code = 200 THEN {<<r.listing_id, r.action>>}
    ELSE {}

\* the response in flight reaches its client
Deliver ==
    /\ resp # NoResp
    /\ resp' = NoResp
    /\ acked' = acked \cup Acknowledged(resp)
    /\ UNCHANGED <<dataFile, uploads, uuidCount, clock, writers, pc, local,
                   submitted, decided, deleted>>

(***************************************************************************)
(* Specifications.                                                         *)
(***************************************************************************)
\* the requests of the workers run concurrently
Next ==
    \/ Deliver
    \/ \E p \in Procs :
        \/ CreateListing(p, Creates)
        \/ CreateLoad(p)
        \/ CreateOpen(p)
        \/ CreateOpenFail(p)
        \/ CreateDump(p)
        \/ CreateDumpFail(p)
        \/ UpdateListing(p, Updates)
        \/ UpdateRemove(p)
        \/ UpdateOpen(p)
        \/ UpdateOpenFail(p)
        \/ UpdateDump(p)
        \/ UpdateDumpFail(p)
        \/ GetListings(p, Args)
        \/ GetAllListings(p, Auths)
        \/ AdminLogin(p, Passwords)
        \/ GetStats(p)

Spec == Init /\ [][Next]_vars

\* one request at a time: the server run with a single worker
Worker == CHOOSE p \in Procs : TRUE

NextSeq ==
    \/ Deliver
    \/ \E p \in {Worker} :
        \/ CreateListing(p, AllCreates)
        \/ CreateLoad(p)
        \/ CreateOpen(p)
        \/ CreateOpenFail(p)
        \/ CreateDump(p)
        \/ CreateDumpFail(p)
        \/ UpdateListing(p, AllUpdates)
        \/ UpdateRemove(p)
        \/ UpdateOpen(p)
        \/ UpdateOpenFail(p)
        \/ UpdateDump(p)
        \/ UpdateDumpFail(p)
        \/ GetListings(p, AllArgs)
        \/ GetAllListings(p, AllAuths)
        \/ AdminLogin(p, AllPasswords)
        \/ GetStats(p)

SpecSeq == Init /\ [][NextSeq]_vars

(***************************************************************************)
(* Properties.                                                             *)
(***************************************************************************)
\* the collection a load returns: nothing when the text is no JSON document
Persisted == IF dataFile.complete THEN dataFile.recs ELSE << >>

\* a handler answered its request in its first step
AnsweredAtOnce(op) == resp = NoResp /\ pc' = pc /\ resp'.op = op

\* worker p left idle for the file phase of an update
UpdateGoesOn(p) == pc[p] = "idle" /\ pc'[p] \in {"u_rm", "u_open"}

\* worker p left idle for the file phase of a create
CreateGoesOn(p) == pc[p] = "idle" /\ pc'[p] = "c_load"

\* C1: no response of get_listings holds a listing that is not Approved
C1_PublicOnlyApproved ==
    resp.op = "get_listings" =>
        \A i \in 1..Len(resp.body) : resp.body[i].status = "Approved"

\* C2: every listing in the data file holds at most 4 characters of gift card
\* number, they are the last 4 of the number submitted to the create that
\* built it, and they are not the whole submitted number
C2_GiftCardRedacted ==
    \A i \in 1..Len(dataFile.recs) :
        LET l == dataFile.recs[i]
            g == l.payment_details.gift_card_number
        IN  \E s \in submitted :
                /\ s[1] = l.id
                /\ Len(g) <= 4
                /\ Len(s[2]) >= 4
                /\ g = SubSeq(s[2], Len(s[2]) - 3, Len(s[2]))
                /\ g # s[2]

C2_Witness ==
    /\ dataFile.complete
    /\ \E i, j \in 1..Len(dataFile.recs) :
        /\ dataFile.recs[i].payment_details.gift_card_number = "5678"
        /\ dataFile.recs[i].status = "Rejected"
        /\ dataFile.recs[j].payment_details.gift_card_number = "1234"

\* C3: a listing that was persisted as Approved or Rejected is never
\* persisted as Pending afterwards
C3_NeverBackToPending ==
    \A i \in 1..Len(Persisted) :
        Persisted[i].id \in decided => Persisted[i].status # "Pending"

\* C4: the save of a successful moderate leaves every listing it keeps with
\* the status it loaded, or moves it from Pending to Approved or Rejected
C4_OnlyFromPending ==
    [][\A p \in Procs :
        (pc[p] = "u_dump" /\ pc'[p] = "idle" /\ resp'.op = "update" /\ resp'.code = 200)
        => \A i \in 1..Len(local[p].loaded), j \in 1..Len(dataFile'.recs) :
              local[p].loaded[i].id = dataFile'.recs[j].id
              => \/ dataFile'.recs[j].status = local[p].loaded[i].status
                 \/ /\ local[p].loaded[i].status = "Pending"
                    /\ dataFile'.recs[j].status \in {"Approved", "Rejected"}]_vars

\* C5: an authorized update whose id is not in the loaded collection is
\* answered 404 "Listing not found" whatever the action, with the data file
\* and the upload directory as they were; no such update gets to its file phase
C5_NotFoundNoWrite ==
    [][/\ (/\ AnsweredAtOnce("update")
           /\ resp'.auth = "Bearer " \o sha256(ADMIN_PASSWORD)
           /\ dataFile.complete
           /\ resp'.listing_id \notin IdsOf(dataFile.recs))
          => /\ resp'.code = 404
             /\ resp'.error = "Listing not found"
             /\ dataFile' = dataFile
             /\ uploads' = uploads
       /\ \A p \in Procs :
            UpdateGoesOn(p) => local'[p].listing_id \in IdsOf(dataFile.recs)]_vars

C5_Witness ==
    /\ resp.op = "update"
    /\ resp.code = 404
    /\ resp.action = "delete"
    /\ Len(Persisted) > 0
    /\ uploads # {}

\* C6: an authorized update of an existing id whose action is none of
\* approve, reject, delete is answered 400 "Invalid action", with the data file
\* and the upload directory as they were; no such update gets to its file phase
C6_InvalidActionNoWrite ==
    [][/\ (/\ AnsweredAtOnce("update")
           /\ resp'.auth = "Bearer " \o sha256(ADMIN_PASSWORD)
           /\ dataFile.complete
           /\ resp'.listing_id \in IdsOf(dataFile.recs)
           /\ resp'.action \notin {"approve", "reject", "delete"})
          => /\ resp'.code = 400
             /\ resp'.error = "Invalid action"
             /\ dataFile' = dataFile
             /\ uploads' = uploads
       /\ \A p \in Procs :
            UpdateGoesOn(p) => local'[p].action \in {"approve", "reject", "delete"}]_vars

C6_Witness ==
    /\ resp.op = "update"
    /\ resp.code = 400
    /\ resp.action = None
    /\ resp.listing_id \in IdsOf(Persisted)
    /\ uploads # {}

\* the order of the required fields as the claim gives it
C7_Order ==
    <<"full_name", "email", "title", "description",
      "gift_card_number", "card_name", "amount">>

C7_Defect(data, f) == f \notin DOMAIN data \/ data[f] = ""

\* C7: a create with a required field absent or empty is answered 400 with
\* "Missing required field: " and the first such field, the data file and
\* the upload directory stay as they were, and no such create gets to its
\* file phase
C7_MissingFieldNoWrite ==
    [][/\ (/\ AnsweredAtOnce("create")
           /\ \E i \in 1..7 : C7_Defect(resp'.data, C7_Order[i]))
          => /\ resp'.code = 400
             /\ \E i \in 1..7 :
                  /\ C7_Defect(resp'.data, C7_Order[i])
                  /\ \A j \in 1..(i - 1) : ~C7_Defect(resp'.data, C7_Order[j])
                  /\ resp'.error = "Missing required field: " \o C7_Order[i]
             /\ dataFile' = dataFile
             /\ uploads' = uploads
       /\ \A p \in Procs :
            CreateGoesOn(p)
            => \A i \in 1..7 : ~C7_Defect(local'[p].data, C7_Order[i])]_vars

C7_Witness ==
    /\ resp.op = "create"
    /\ resp.code = 400
    /\ resp.file = "a.png"
    /\ resp.error = "Missing required field: title"
    /\ "description" \notin DOMAIN resp.data
    /\ Len(Persisted) > 0

\* C8: a create with every required field that verify_payment rejects is
\* answered 400 with verify_payment's message, the data file and the upload
\* directory stay as they were, and no such create gets to its file phase
C8_PaymentErrorNoWrite ==
    [][/\ (/\ AnsweredAtOnce("create")
           /\ \A i \in 1..7 : ~C7_Defect(resp'.data, C7_Order[i])
           /\ ~verify_payment(resp'.data.gift_card_number, resp'.data.card_name,
                              resp'.data.amount)[1])
          => /\ resp'.code = 400
             /\ resp'.error = verify_payment(resp'.data.gift_card_number,
                                             resp'.data.card_name, resp'.data.amount)[2]
             /\ dataFile' = dataFile
             /\ uploads' = uploads
       /\ \A p \in Procs :
            (CreateGoesOn(p) /\ \A i \in 1..7 : ~C7_Defect(local'[p].data, C7_Order[i]))
            => verify_payment(local'[p].data.gift_card_number, local'[p].data.card_name,
                              local'[p].data.amount)[1]]_vars

C8_Witness ==
    /\ resp.op = "create"
    /\ resp.code = 400
    /\ resp.file = "a.png"
    /\ resp.error = "Amount must be positive"
    /\ Len(Persisted) > 0

\* C9: the data file is a whole JSON document at every moment, so that every
\* load sees the collection of the last save or of the save before it
C9_SaveAtomic == dataFile.complete

\* the part of C10 about one step: the save of a successful delete
C10_Step ==
    \A p \in Procs :
        (/\ pc[p] = "u_dump" /\ pc'[p] = "idle"
         /\ resp'.op = "update" /\ resp'.code = 200 /\ resp'.action = "delete")
        => LET before == local[p].loaded
               kept == SelectSeq(before, LAMBDA l : l.id # resp'.listing_id)
           IN  /\ dataFile'.complete
               /\ dataFile'.recs = kept
               /\ Len(kept) = Len(before) - 1
               /\ \A i \in 1..Len(before) :
                    (before[i].id = resp'.listing_id /\ before[i].image_url # None)
                    => \A n \in uploads' : "/uploads/" \o n # before[i].image_url

\* the part of C10 about the later states
C10_Stays ==
    \A s \in submitted :
        s[1] \in deleted
        => /\ s[1] \notin IdsOf(dataFile.recs)
           /\ s[3] # None => \A n \in uploads : "/uploads/" \o n # s[3]

\* C10: with one request at a time, the save of a successful delete writes
\* the loaded collection without the listing of that id and with every other
\* listing in place, the image file of that listing is gone, and the listing
\* and its image file stay away in every later state
C10_DeleteRemoves == []C10_Stays /\ [][C10_Step]_vars

C10_Witness ==
    /\ resp.op = "update"
    /\ resp.code = 200
    /\ resp.action = "delete"
    /\ dataFile.complete
    /\ Len(dataFile.recs) = 1
    /\ \E s \in submitted : s[1] = resp.listing_id /\ s[3] # None

\* the status that an action gives
C11_Target(action) == IF action = "approve" THEN "Approved" ELSE "Rejected"

\* the save of a successful approve or reject by worker p
C11_Saved(p) ==
    /\ pc[p] = "u_dump" /\ pc'[p] = "idle"
    /\ resp'.op = "update" /\ resp'.code = 200
    /\ resp'.action \in {"approve", "reject"}

\* C11: with one request at a time, an authorized approve or reject of a
\* listing in the store is never refused, whatever the status of the listing;
\* its save leaves the listing with the status of the action; and when the
\* listing already had that status (the second of two calls in succession) the
\* save writes the very collection that was loaded
C11_Idempotent ==
    [][/\ (/\ AnsweredAtOnce("update")
           /\ resp'.auth = "Bearer " \o sha256(ADMIN_PASSWORD)
           /\ dataFile.complete
           /\ resp'.action \in {"approve", "reject"})
          => resp'.listing_id \notin IdsOf(dataFile.recs)
       /\ \A p \in Procs :
            C11_Saved(p)
            => /\ dataFile'.complete
               /\ \E i \in 1..Len(local[p].loaded) :
                    /\ local[p].loaded[i].id = resp'.listing_id
                    /\ dataFile'.recs[i].id = resp'.listing_id
                    /\ dataFile'.recs[i].status = C11_Target(resp'.action)
                    /\ local[p].loaded[i].status = C11_Target(resp'.action)
                       => dataFile'.recs = local[p].loaded]_vars

\* the second approve in succession has answered: the first one was
\* acknowledged and no reject came between
C11_Witness ==
    /\ resp.op = "update"
    /\ resp.code = 200
    /\ resp.action = "approve"
    /\ <<resp.listing_id, "approve">> \in acked
    /\ \A a \in {"reject", "delete"} : <<resp.listing_id, a>> \notin acked
    /\ dataFile.complete
    /\ \E i \in 1..Len(dataFile.recs) :
        /\ dataFile.recs[i].id = resp.listing_id
        /\ dataFile.recs[i].status = "Approved"

\* a decimal number as text: an optional sign, digits, an optional point
C12_IsNumber(amount) ==
    LET t == Strip(amount)
        body == IF t # "" /\ CharAt(t, 1) \in {"+", "-"} THEN SubSeq(t, 2, Len(t)) ELSE t
    IN  /\ AllIn(body, Digits \cup {"."})
        /\ Cardinality({i \in 1..Len(body) : CharAt(body, i) = "."}) <= 1
        /\ \E i \in 1..Len(body) : CharAt(body, i) \in Digits

\* a decimal number above 0
C12_IsPositive(amount) ==
    LET t == Strip(amount)
    IN  /\ C12_IsNumber(amount)
        /\ CharAt(t, 1) # "-"
        /\ \E i \in 1..Len(t) : CharAt(t, i) \in Digits \ {"0"}

\* the outcome the claim gives: the reason of the first failing check, or
\* None for success
C12_Expected(gift_card_number, card_name, amount) ==
    IF gift_card_number = "" \/ card_name = "" \/ amount = ""
    THEN "all payment fields are required"
    ELSE IF Len(gift_card_number) < 8
    THEN "invalid gift card number format"
    ELSE IF ~C12_IsNumber(amount)
    THEN "invalid amount format"
    ELSE IF ~C12_IsPositive(amount)
    THEN "amount must be positive"
    ELSE None

\* C12: on the payment fields of every create that has all its required
\* fields, verify_payment fails with the reason of the first failing check
\* (fields empty, number shorter than 8, amount no number, amount not above
\* 0), it succeeds exactly when the number has 8 characters or more and the
\* amount is a decimal number above 0, and it leaves the files as they were
C12_VerifyPayment ==
    [][/\ (/\ AnsweredAtOnce("create")
           /\ \A i \in 1..7 : ~C7_Defect(resp'.data, C7_Order[i]))
          => /\ Lower(resp'.error) = C12_Expected(resp'.data.gift_card_number,
                                                  resp'.data.card_name, resp'.data.amount)
             /\ dataFile' = dataFile
             /\ uploads' = uploads
       /\ \A p \in Procs :
            CreateGoesOn(p)
            => /\ C12_Expected(local'[p].data.gift_card_number, local'[p].data.card_name,
                               local'[p].data.amount) = None
               /\ local'[p].listing.payment_details.verified
               /\ dataFile' = dataFile]_vars

\* an update of the listing with that action has answered success
C13_Succeeded(id, action) ==
    \/ <<id, action>> \in acked
    \/ resp.op = "update" /\ resp.code = 200 /\ resp.listing_id = id /\ resp.action = action

\* C13: the listing that a create returns is Pending, a persisted listing is
\* Pending as long as no approve or reject of it has succeeded, and every
\* listing in a response of get_listings had an approve that succeeded
C13_ApprovedBeforePublic ==
    /\ (resp.op = "create" /\ resp.code = 201) => resp.body[1].status = "Pending"
    /\ \A i \in 1..Len(Persisted) :
        Persisted[i].status # "Pending"
        => \E a \in {"approve", "reject"} : C13_Succeeded(Persisted[i].id, a)
    /\ resp.op = "get_listings"
       => \A i \in 1..Len(resp.body) : <<resp.body[i].id, "approve">> \in acked

\* no delete of the listing has succeeded or is under way
C14_NeverDeleted(id) ==
    /\ id \notin deleted
    /\ \A p \in Procs :
        ~(local[p].op = "update" /\ local[p].listing_id = id /\ local[p].action = "delete")

\* a listing whose create was acknowledged is absent though never deleted
C14_LostCreate ==
    /\ dataFile.complete
    /\ \E e \in acked :
        /\ e[2] = "create"
        /\ e[1] \notin IdsOf(dataFile.recs)
        /\ C14_NeverDeleted(e[1])

\* a listing whose approve or reject was acknowledged, and that no later
\* update touched, has the status it had before
C14_LostStatus ==
    /\ dataFile.complete
    /\ \E i \in 1..Len(dataFile.recs) :
        /\ dataFile.recs[i].status = "Pending"
        /\ \E a \in {"approve", "reject"} : <<dataFile.recs[i].id, a>> \in acked

\* a listing whose delete was acknowledged is present again
C14_LostDelete ==
    /\ dataFile.complete
    /\ \E e \in acked : e[2] = "delete" /\ e[1] \in IdsOf(dataFile.recs)

\* C14: the save of a create or an update that answers success writes the
\* collection its handler loaded with its own change and nothing else,
\* whatever other handlers have saved since that load: the later save
\* overwrites the earlier one
C14_LaterSaveWins ==
    [][\A p \in Procs :
        /\ (pc[p] = "c_dump" /\ pc'[p] = "idle" /\ resp'.code = 201)
           => /\ dataFile'.recs = local[p].listings
              /\ local[p].listings[Len(local[p].listings)] = resp'.body[1]
        /\ (pc[p] = "u_dump" /\ pc'[p] = "idle" /\ resp'.code = 200)
           => dataFile'.recs =
                IF resp'.action = "delete"
                THEN SelectSeq(local[p].loaded, LAMBDA l : l.id # resp'.listing_id)
                ELSE [i \in 1..Len(local[p].loaded) |->
                        IF local[p].loaded[i].id = resp'.listing_id
                        THEN [local[p].loaded[i] EXCEPT
                                !.status = C11_Target(resp'.action)]
                        ELSE local[p].loaded[i]]]_vars

\* two creates that overlapped were both acknowledged and the store holds
\* one of the two listings only
C14_Witness ==
    /\ C14_LostCreate
    /\ Cardinality({e \in acked : e[2] = "create"}) = 2
    /\ Len(dataFile.recs) = 1
    /\ deleted = {}

\* the fields of a listing other than its status
C15_Rest(l) ==
    <<l.id, l.full_name, l.email, l.title, l.description, l.image_url,
      l.payment_details, l.created_at, l.verification_date>>

\* C15: with one request at a time, an approve or reject that succeeds works
\* on the collection that was in the store when it was called, leaves the
\* upload directory as it was at every step, and saves a collection of the same
\* length and order in which every listing of another id is as it was loaded
\* and the listing of that id differs from the loaded one in its status at most
C15_OnlyStatus ==
    [][\A p \in Procs :
        /\ (UpdateGoesOn(p) /\ local'[p].action \in {"approve", "reject"})
           => /\ local'[p].loaded = dataFile.recs
              /\ dataFile' = dataFile
              /\ uploads' = uploads
              /\ pc'[p] = "u_open"
        /\ (pc[p] \in {"u_open", "u_dump"} /\ local[p].action \in {"approve", "reject"})
           => uploads' = uploads
        /\ C11_Saved(p)
           => /\ dataFile'.complete
              /\ Len(dataFile'.recs) = Len(local[p].loaded)
              /\ \A i \in 1..Len(local[p].loaded) :
                    LET old == local[p].loaded[i]
                        new == dataFile'.recs[i]
                    IN  /\ DOMAIN new = DOMAIN old
                        /\ C15_Rest(new) = C15_Rest(old)
                        /\ old.id # resp'.listing_id => new = old]_vars

\* a reject has answered success on a store of two listings, the rejected one
\* with an image
C15_Witness ==
    /\ resp.op = "update"
    /\ resp.code = 200
    /\ resp.action = "reject"
    /\ dataFile.complete
    /\ Len(dataFile.recs) = 2
    /\ \E i \in 1..2 :
        /\ dataFile.recs[i].id = resp.listing_id
        /\ dataFile.recs[i].status = "Rejected"
        /\ dataFile.recs[i].image_url # None
        /\ ImagePath(dataFile.recs[i].image_url) \in uploads
        /\ dataFile.recs[3 - i].status = "Pending"

\* a persisted listing names an image that is not in the upload directory
C16_Dangling ==
    \E i \in 1..Len(dataFile.recs) :
        /\ dataFile.recs[i].image_url # None
        /\ ImagePath(dataFile.recs[i].image_url) \notin uploads

\* a file of the upload directory that no persisted listing names
C16_Orphan ==
    \E n \in uploads :
        \A i \in 1..Len(dataFile.recs) : dataFile.recs[i].image_url # "/uploads/" \o n

\* C16: whenever no request is under way and the data file is a whole
\* document, every persisted listing with an image names a file of the upload
\* directory and every file of the upload directory is named by a persisted
\* listing (the states in the middle of a request are left out: this is the
\* weakest reading of the claim)
C16_ImagesConsistent ==
    (dataFile.complete /\ \A p \in Procs : pc[p] = "idle")
    => ~C16_Dangling /\ ~C16_Orphan

\* C17: a response of a listing operation to a caller without the admin token
\* holds Approved listings only, and get_all_listings answers such a caller
\* 401 "Unauthorized" with no listing
C17_AdminOnlyUnfiltered ==
    /\ (/\ resp.op \in {"get_listings", "get_all_listings"}
        /\ resp.auth # "Bearer " \o sha256(ADMIN_PASSWORD))
       => \A i \in 1..Len(resp.body) : resp.body[i].status \notin {"Pending", "Rejected"}
    /\ (/\ resp.op = "get_all_listings"
        /\ resp.auth # "Bearer " \o sha256(ADMIN_PASSWORD))
       => /\ resp.code = 401
          /\ resp.error = "Unauthorized"
          /\ resp.body = << >>

\* C18: an update whose Authorization is not "Bearer " and the hash of the
\* admin password is answered 401 "Unauthorized" with the data file and the
\* upload directory as they were, whatever its id and action and whatever the
\* state of the data file, and no such update gets to its file phase; a login
\* succeeds for the admin password only and returns that hash as its token,
\* and no update or get_all_listings that bears it is answered 401
C18_TokenGate ==
    [][/\ (/\ AnsweredAtOnce("update")
           /\ resp'.auth # "Bearer " \o sha256(ADMIN_PASSWORD))
          => /\ resp'.code = 401
             /\ resp'.error = "Unauthorized"
             /\ dataFile' = dataFile
             /\ uploads' = uploads
       /\ \A p \in Procs :
            UpdateGoesOn(p) => local'[p].auth = "Bearer " \o sha256(ADMIN_PASSWORD)
       /\ (AnsweredAtOnce("admin_login") /\ resp'.code = 200)
          => /\ resp'.password = ADMIN_PASSWORD
             /\ resp'.body.success
             /\ resp'.body.token = sha256(ADMIN_PASSWORD)
       /\ (AnsweredAtOnce("admin_login") /\ resp'.code # 200)
          => /\ resp'.password # ADMIN_PASSWORD
             /\ "token" \notin DOMAIN resp'.body
       /\ (/\ resp = NoResp
           /\ resp'.op \in {"update", "get_all_listings"}
           /\ resp'.auth = "Bearer " \o sha256(ADMIN_PASSWORD))
          => resp'.code # 401]_vars

\* a delete with the hash of a wrong password has been refused while the
\* listing it names is persisted with its image
C18_Witness ==
    /\ resp.op = "update"
    /\ resp.code = 401
    /\ resp.action = "delete"
    /\ resp.auth = "Bearer " \o sha256("guess")
    /\ \E i \in 1..Len(Persisted) :
        /\ Persisted[i].id = resp.listing_id
        /\ Persisted[i].image_url # None
        /\ ImagePath(Persisted[i].image_url) \in uploads

\* the number of listings of the data file with a status
C19_Number(status) ==
    Cardinality({i \in 1..Len(dataFile.recs) : dataFile.recs[i].status = status})

\* the part of C19 about the states
C19_Counts ==
    /\ \A i \in 1..Len(dataFile.recs) :
        dataFile.recs[i].status \in {"Pending", "Approved", "Rejected"}
    /\ (resp.op = "get_stats" /\ resp.code = 200)
       => /\ dataFile.complete
          /\ resp.body.total = Len(dataFile.recs)
          /\ resp.body.pending = C19_Number("Pending")
          /\ resp.body.approved = C19_Number("Approved")
          /\ resp.body.rejected = C19_Number("Rejected")
          /\ resp.body.total = resp.body.pending + resp.body.approved + resp.body.rejected
    /\ (resp.op = "get_stats" /\ resp.code # 200) => ~dataFile.complete

\* the part of C19 about one step
C19_Step ==
    AnsweredAtOnce("get_stats") => dataFile' = dataFile /\ uploads' = uploads

\* C19: every listing in the data file is Pending, Approved or Rejected; a
\* response of get_stats gives as total the number of persisted listings, as
\* pending, approved and rejected the numbers of listings with that status,
\* and total is their sum; get_stats leaves the data file and the upload
\* directory as they were
C19_Stats == []C19_Counts /\ [][C19_Step]_vars

C19_Witness ==
    /\ resp.op = "get_stats"
    /\ resp.code = 200
    /\ resp.body = [total |-> 2, pending |-> 1, approved |-> 0, rejected |-> 1]

====
